---------------------------- MODULE Spec2Model ----------------------------
(***************************************************************************)
(* Model of netlify/functions/get-azure-costs.js: the HTTP handler, the    *)
(* parameter resolver, the validator, the cost-record normaliser with its  *)
(* tag join and sort, and the summary aggregator.                          *)
(*                                                                         *)
(* JavaScript strings that the code inspects character by character        *)
(* (dates, times, resource ids, UsageDate values) are sequences of         *)
(* one-character strings.  JavaScript values of a request are records      *)
(* [type, b, s] so that a boolean true and the string "true" are distinct. *)
(* Money is counted in integers: a PreTaxCost in tenths of a cent (mills), *)
(* a rounded cost in cents.                                                *)
(***************************************************************************)
EXTENDS Integers, Sequences, FiniteSets, TLC

VARIABLES
    event,      \* the invocation's event: httpMethod, body, queryStringParameters
    env,        \* process.env: the Azure credentials and the default subscription
    pc,         \* where the handler (or the function applied on its own) stands
    params,     \* the resolved ParameterSet
    verr,       \* validateParameters' result
    steps,      \* the pipeline steps performed so far, in order
    outcome,    \* what each upstream call did: "none", "ok", "failed" ("nocreds")
    costData,   \* the cost query's response
    resourceTags, \* the TagMap handed to processCostData
    response    \* the handler's response, or the function's result

vars == <<event, env, pc, params, verr, steps, outcome, costData, resourceTags, response>>

-----------------------------------------------------------------------------
(* Bounds of the model *)

\* rows of a cost response in the handler's specification
MaxRows == 2
\* rows of a cost response in the normaliser's specification
MaxProcRows == 3
\* service names of the aggregator's specification (one more than the top-5 cut)
MaxServices == 6

-----------------------------------------------------------------------------
(* Characters and strings *)

Digits == <<"0", "1", "2", "3", "4", "5", "6", "7", "8", "9">>

DigitChars == {Digits[i] : i \in 1..10}

IsDigit(c) == c \in DigitChars

\* the value of a digit character
DigitVal(c) == (CHOOSE i \in 1..10 : Digits[i] = c) - 1

Pad2(n) == <<Digits[(n \div 10) + 1], Digits[(n % 10) + 1]>>

Pad4(n) == <<Digits[(n \div 1000) + 1], Digits[((n \div 100) % 10) + 1],
             Digits[((n \div 10) % 10) + 1], Digits[(n % 10) + 1]>>

\* "YYYY-MM-DD"
DateStr(y, m, d) == Pad4(y) \o <<"-">> \o Pad2(m) \o <<"-">> \o Pad2(d)

\* "HH:MM:SS"
TimeStr(h, m, s) == Pad2(h) \o <<":">> \o Pad2(m) \o <<":">> \o Pad2(s)

\* String.prototype.substring(from, to) with 0-based, end-exclusive indices,
\* both clamped to the string's length
Substring(s, from, to) ==
    LET a == IF from > Len(s) THEN Len(s) ELSE from
        b == IF to > Len(s) THEN Len(s) ELSE to
    IN  SubSeq(s, a + 1, b)

S_true == <<"t", "r", "u", "e">>
S_false == <<"f", "a", "l", "s", "e">>
S_one == <<"1">>
S_TRUE == <<"T", "R", "U", "E">>
S_Daily == <<"D", "a", "i", "l", "y">>
S_Monthly == <<"M", "o", "n", "t", "h", "l", "y">>
S_Weekly == <<"W", "e", "e", "k", "l", "y">>
S_abc == <<"a", "b", "c">>
S_sub == <<"s", "u", "b">>
S_envsub == <<"e", "n", "v">>
S_Unknown == <<"U", "n", "k", "n", "o", "w", "n">>
S_NA == <<"N", "/", "A">>
S_NoTags == <<"N", "o", " ", "t", "a", "g", "s">>

-----------------------------------------------------------------------------
(* JavaScript values *)

Undefined == [type |-> "undefined", b |-> FALSE, s |-> <<>>]
JNull == [type |-> "null", b |-> FALSE, s |-> <<>>]
JBool(x) == [type |-> "boolean", b |-> x, s |-> <<>>]
JStr(x) == [type |-> "string", b |-> FALSE, s |-> x]

\* ToBoolean
Truthy(v) ==
    CASE v.type = "boolean" -> v.b
      [] v.type = "string" -> v.s # <<>>
      [] OTHER -> FALSE

\* a || b
Or(a, b) == IF Truthy(a) THEN a ELSE b

FieldNames == {"start_date", "end_date", "start_time", "end_time",
               "subscription_id", "include_tags", "granularity"}

\* an object none of whose fields is set
EmptyObject == [f \in FieldNames |-> Undefined]

\* obj.hasOwnProperty(f): JSON gives no own property the value undefined
HasOwnProperty(obj, f) == obj[f].type # "undefined"

-----------------------------------------------------------------------------
(* getRequestParameters *)

\* the body after lines 93-102: an absent or unparsable body is {}
ParsedBody(ev) ==
    IF ev.body.kind = "object" THEN ev.body.obj ELSE EmptyObject

\* JSON.parse gives null for the body "null"; reading a property of it throws
ResolverThrows(ev) == ev.body.kind = "null"

\* lines 114-120
IncludeTags(body, queryParams) ==
    IF HasOwnProperty(body, "include_tags")
      THEN body.include_tags = JBool(TRUE) \/ body.include_tags = JStr(S_true)
      ELSE IF Truthy(queryParams.include_tags)
             THEN queryParams.include_tags = JStr(S_true)
             ELSE TRUE

getRequestParameters(ev, environment) ==
    LET body == ParsedBody(ev)
        queryParams == ev.queryStringParameters
    IN  [start_date |-> Or(body.start_date, queryParams.start_date),
         end_date |-> Or(body.end_date, queryParams.end_date),
         start_time |-> Or(Or(body.start_time, queryParams.start_time),
                           JStr(TimeStr(0, 0, 0))),
         end_time |-> Or(Or(body.end_time, queryParams.end_time),
                         JStr(TimeStr(23, 59, 59))),
         subscription_id |-> Or(Or(body.subscription_id, queryParams.subscription_id),
                                environment.AZURE_SUBSCRIPTION_ID),
         include_tags |-> IncludeTags(body, queryParams),
         granularity |-> Or(Or(body.granularity, queryParams.granularity),
                            JStr(S_Daily))]

-----------------------------------------------------------------------------
(* validateParameters *)

MSG_START == "Missing required parameter: start_date (format: YYYY-MM-DD)"
MSG_END == "Missing required parameter: end_date (format: YYYY-MM-DD)"
MSG_SUB == "Missing required parameter: subscription_id"
MSG_DATE == "Invalid date format. Use YYYY-MM-DD"
MSG_ORDER == "end_date must be greater than or equal to start_date"
MSG_RANGE == "Date range cannot exceed 365 days"
MSG_TIME == "Invalid time format. Use HH:MM:SS (e.g., 14:30:00)"
MSG_GRAN == "granularity must be 'Daily' or 'Monthly'"
NoError == "null"

IsLeap(y) == (y % 4 = 0 /\ y % 100 # 0) \/ y % 400 = 0

DaysInMonth(y, m) ==
    IF m = 2 THEN (IF IsLeap(y) THEN 29 ELSE 28)
    ELSE IF m \in {4, 6, 9, 11} THEN 30 ELSE 31

\* days from 1970-01-01 to the civil date y-m-d
DaysFromCivil(y, m, d) ==
    LET yy == IF m <= 2 THEN y - 1 ELSE y
        era == yy \div 400
        yoe == yy - era * 400
        mp == IF m > 2 THEN m - 3 ELSE m + 9
        doy == (153 * mp + 2) \div 5 + d - 1
        doe == yoe * 365 + yoe \div 4 - yoe \div 100 + doy
    IN  era * 146097 + doe - 719468

\* one day, in the seconds the model counts time in (the code counts
\* milliseconds, 1000 * 60 * 60 * 24; a date-only string is a whole second)
DayLength == 60 * 60 * 24

MaxRangeDays == 365

NaN == -1

\* new Date(v).getTime() for the values the model draws: a date-only ISO
\* string of a calendar date is midnight UTC of that date; undefined and
\* every other string of the model is an Invalid Date (NaN)
DateGetTime(v) ==
    IF v.type # "string" \/ Len(v.s) # 10 THEN NaN
    ELSE LET s == v.s IN
      IF ~ (s[5] = "-" /\ s[8] = "-"
            /\ \A i \in {1, 2, 3, 4, 6, 7, 9, 10} : IsDigit(s[i]))
        THEN NaN
      ELSE LET y == DigitVal(s[1]) * 1000 + DigitVal(s[2]) * 100
                    + DigitVal(s[3]) * 10 + DigitVal(s[4])
               m == DigitVal(s[6]) * 10 + DigitVal(s[7])
               d == DigitVal(s[9]) * 10 + DigitVal(s[10])
           IN  IF m \in 1..12 /\ d \in 1..DaysInMonth(y, m)
                 THEN DaysFromCivil(y, m, d) * DayLength
                 ELSE NaN

\* the lengths of the prefixes of s that ([0-1]?[0-9]|2[0-3]) matches
HourPrefixes(s) ==
    {k \in {1, 2} :
        /\ k <= Len(s)
        /\ \/ k = 2 /\ s[1] \in {"0", "1"} /\ IsDigit(s[2])
           \/ k = 1 /\ IsDigit(s[1])
           \/ k = 2 /\ s[1] = "2" /\ s[2] \in {"0", "1", "2", "3"}}

\* :[0-5][0-9]:[0-5][0-9]$ from position k + 1
MinSecSuffix(s, k) ==
    /\ Len(s) = k + 6
    /\ s[k + 1] = ":" /\ s[k + 4] = ":"
    /\ s[k + 2] \in {"0", "1", "2", "3", "4", "5"} /\ IsDigit(s[k + 3])
    /\ s[k + 5] \in {"0", "1", "2", "3", "4", "5"} /\ IsDigit(s[k + 6])

\* timeRegex.test(v) for a string v
TimeRegexTest(v) == \E k \in HourPrefixes(v.s) : MinSecSuffix(v.s, k)

validateParameters_TimeBeforeDates(p) ==
    IF ~ Truthy(p.start_date) THEN MSG_START
    ELSE IF ~ Truthy(p.end_date) THEN MSG_END
    ELSE IF ~ Truthy(p.subscription_id) THEN MSG_SUB
    ELSE IF ~ TimeRegexTest(p.start_time) \/ ~ TimeRegexTest(p.end_time) THEN MSG_TIME
    ELSE LET start == DateGetTime(p.start_date)
             end == DateGetTime(p.end_date)
         IN
      IF start = NaN \/ end = NaN THEN MSG_DATE
      ELSE IF end < start THEN MSG_ORDER
      ELSE IF (end - start) \div DayLength > MaxRangeDays THEN MSG_RANGE
      ELSE IF p.granularity \notin {JStr(S_Daily), JStr(S_Monthly)} THEN MSG_GRAN
      ELSE NoError

validateParameters(p) ==
    IF ~ Truthy(p.start_date) THEN MSG_START
    ELSE IF ~ Truthy(p.end_date) THEN MSG_END
    ELSE IF ~ Truthy(p.subscription_id) THEN MSG_SUB
    ELSE LET start == DateGetTime(p.start_date)
             end == DateGetTime(p.end_date)
         IN
      IF start = NaN \/ end = NaN THEN MSG_DATE
      ELSE IF end < start THEN MSG_ORDER
      ELSE IF (end - start) \div DayLength > MaxRangeDays THEN MSG_RANGE
      ELSE IF ~ TimeRegexTest(p.start_time) \/ ~ TimeRegexTest(p.end_time) THEN MSG_TIME
      ELSE IF p.granularity \notin {JStr(S_Daily), JStr(S_Monthly)} THEN MSG_GRAN
      ELSE NoError

-----------------------------------------------------------------------------
(* The cost response and the tag response *)

\* a cell of a row: a string, or a number (an integer; a PreTaxCost is
\* counted in mills, thousandths of the currency unit)
SCell(x) == [t |-> "string", s |-> x, n |-> 0]
NCell(x) == [t |-> "number", s |-> <<>>, n |-> x]

RECURSIVE NatToString(_)
NatToString(n) ==
    IF n < 10 THEN <<Digits[n + 1]>>
    ELSE NatToString(n \div 10) \o <<Digits[(n % 10) + 1]>>

\* String(value)
String(cell) == IF cell.t = "string" THEN cell.s ELSE NatToString(cell.n)

\* columnMap of lines 310-314: each column name's index, the last one winning
ColumnMap(columns) ==
    [name \in {columns[i] : i \in DOMAIN columns} |->
        CHOOSE i \in DOMAIN columns :
            columns[i] = name /\ \A j \in DOMAIN columns : columns[j] = name => j <= i]

\* columnMap.hasOwnProperty(name)
HasColumn(columnMap, name) == name \in DOMAIN columnMap

\* lines 323-334: String(value) never throws, so the catch never runs
DecodeDate(columnMap, row) ==
    IF HasColumn(columnMap, "UsageDate")
      THEN LET dateStr == String(row[columnMap["UsageDate"]])
               year == Substring(dateStr, 0, 4)
               month == Substring(dateStr, 4, 6)
               day == Substring(dateStr, 6, 8)
           IN  day \o <<"-">> \o month \o <<"-">> \o year
      ELSE S_Unknown

\* the last element of resourceId.split('/')
LastSegment(id) ==
    LET slashes == {i \in DOMAIN id : id[i] = "/"}
        last == IF slashes = {} THEN 0
                ELSE CHOOSE i \in slashes : \A j \in slashes : j <= i
    IN  SubSeq(id, last + 1, Len(id))

\* lines 339-345
ResourceName(resourceId) ==
    IF resourceId # <<>> THEN LastSegment(resourceId) ELSE S_NA

\* Object.entries(tagsDict).map(([k, v]) => `${k}=${v}`).join('; ')
RECURSIVE JoinTags(_)
JoinTags(entries) ==
    IF Len(entries) = 1 THEN entries[1][1] \o <<"=">> \o entries[1][2]
    ELSE entries[1][1] \o <<"=">> \o entries[1][2] \o <<";", " ">> \o JoinTags(Tail(entries))

\* resourceTags[resourceId] || {}
TagsOf(tagMap, resourceId) ==
    IF resourceId \in DOMAIN tagMap THEN tagMap[resourceId] ELSE <<>>

\* lines 348-356
TagsString(tagMap, resourceId, p) ==
    IF resourceId # <<>> /\ p.include_tags
      THEN LET tagsDict == TagsOf(tagMap, resourceId)
           IN  IF Len(tagsDict) > 0 THEN JoinTags(tagsDict) ELSE S_NoTags
      ELSE S_NoTags

MathRound_Truncate(num, den) == IF num >= 0 THEN num \div den ELSE - ((- num) \div den)

\* Math.round(num / den) for den > 0: the nearest integer, a tie going up
MathRound(num, den) == (2 * num + den) \div (2 * den)

\* Math.round(PreTaxCost * 100), the cost in cents, of a PreTaxCost in mills
RoundCost(mills) == MathRound(mills, 10)

\* a column's string, or 'N/A' when the response lacks the column
ColumnOrNA(columnMap, row, name) ==
    IF HasColumn(columnMap, name) THEN row[columnMap[name]].s ELSE S_NA

\* lines 321-372: the record of one row
CostItem(columnMap, row, tagMap, p) ==
    LET resourceId == IF HasColumn(columnMap, "ResourceId")
                        THEN row[columnMap["ResourceId"]].s ELSE <<>>
    IN  [Date |-> DecodeDate(columnMap, row),
         Cost_INR |-> RoundCost(row[columnMap["PreTaxCost"]].n),
         ServiceName |-> ColumnOrNA(columnMap, row, "ServiceName"),
         ResourceName |-> ResourceName(resourceId),
         ResourceId |-> resourceId,
         ResourceGroupName |-> ColumnOrNA(columnMap, row, "ResourceGroupName"),
         ResourceType |-> ColumnOrNA(columnMap, row, "ResourceType"),
         Tags |-> TagsString(tagMap, resourceId, p)]

\* the collation order of the characters a date string of the model holds
Collation == <<"-", "0", "1", "2", "3", "4", "5", "6", "7", "8", "9",
               "a", "b", "c", "k", "n", "o", "U", "w">>

CollationKey(c) == CHOOSE i \in DOMAIN Collation : Collation[i] = c

\* a.localeCompare(b): negative, zero or positive
LocaleCompare(a, b) ==
    LET n == IF Len(a) < Len(b) THEN Len(a) ELSE Len(b)
        diff == {i \in 1..n : a[i] # b[i]}
    IN  IF diff = {}
          THEN (IF Len(a) < Len(b) THEN -1 ELSE IF Len(a) > Len(b) THEN 1 ELSE 0)
          ELSE LET i == CHOOSE k \in diff : \A j \in diff : k <= j
               IN  IF CollationKey(a[i]) < CollationKey(b[i]) THEN -1 ELSE 1

CompareCosts_CostAscending(a, b) ==
    IF a.Date # b.Date THEN LocaleCompare(a.Date, b.Date)
    ELSE a.Cost_INR - b.Cost_INR

\* the comparator of lines 376-381
CompareCosts(a, b) ==
    IF a.Date # b.Date THEN LocaleCompare(a.Date, b.Date)
    ELSE b.Cost_INR - a.Cost_INR

\* Array.prototype.sort is stable: the element at index i goes after those
\* the comparator puts before it and after the earlier ones it ties with;
\* cmp[j, i] is the comparator's result for the elements at j and i
SortPosition(cmp, n, i) ==
    1 + Cardinality({j \in 1..n : cmp[j, i] < 0 \/ (cmp[j, i] = 0 /\ j < i)})

\* the indices 1..n in sorted order
SortedIndices(cmp, n) ==
    [k \in 1..n |-> CHOOSE i \in 1..n : SortPosition(cmp, n, i) = k]

SortCosts(s) ==
    LET cmp == [j \in DOMAIN s, i \in DOMAIN s |-> CompareCosts(s[j], s[i])]
        order == SortedIndices(cmp, Len(s))
    IN  [k \in DOMAIN s |-> s[order[k]]]

RECURSIVE SumCosts(_)
SumCosts(items) ==
    IF items = <<>> THEN 0 ELSE SumCosts(SubSeq(items, 1, Len(items) - 1)) + items[Len(items)].Cost_INR

\* lines 445-450: the summed cost of each service, in order of first appearance
RECURSIVE ServiceCosts(_)
ServiceCosts(items) ==
    IF items = <<>> THEN <<>>
    ELSE LET acc == ServiceCosts(SubSeq(items, 1, Len(items) - 1))
             item == items[Len(items)]
             at == {k \in DOMAIN acc : acc[k].service = item.ServiceName}
         IN  IF item.ServiceName = S_NA THEN acc
             ELSE IF at # {}
               THEN [k \in DOMAIN acc |->
                        IF k \in at
                          THEN [service |-> acc[k].service, cost |-> acc[k].cost + item.Cost_INR]
                          ELSE acc[k]]
               ELSE Append(acc, [service |-> item.ServiceName, cost |-> item.Cost_INR])

\* (a, b) => b[1] - a[1]
CompareEntries(a, b) == b.cost - a.cost

TopCount == 5

TopServices_Unsorted(detailedCosts) ==
    LET entries == ServiceCosts(detailedCosts)
        top == SubSeq(entries, 1, IF Len(entries) < TopCount THEN Len(entries) ELSE TopCount)
    IN  [k \in DOMAIN top |-> [service |-> top[k].service, cost |-> MathRound(top[k].cost, 1)]]

\* lines 452-458
TopServices(detailedCosts) ==
    LET entries == ServiceCosts(detailedCosts)
        cmp == [j \in DOMAIN entries, i \in DOMAIN entries |->
                  CompareEntries(entries[j], entries[i])]
        order == SortedIndices(cmp, Len(entries))
        sorted == [k \in DOMAIN entries |-> entries[order[k]]]
        top == SubSeq(sorted, 1, IF Len(sorted) < TopCount THEN Len(sorted) ELSE TopCount)
    IN  [k \in DOMAIN top |-> [service |-> top[k].service, cost |-> MathRound(top[k].cost, 1)]]

\* createSummary: the total and the services' ranking (the other rollups,
\* which no property here reads, are left out)
createSummary(detailedCosts, totalCost, p) ==
    IF Len(detailedCosts) = 0
      THEN [total_cost |-> 0, currency |-> "INR", top_services |-> <<>>]
      ELSE [total_cost |-> MathRound(totalCost, 1),
            currency |-> "INR",
            top_services |-> TopServices(detailedCosts)]

\* processCostData; generated_at, the clock's reading, is left out
processCostData(costResponse, tagMap, p) ==
    LET columnMap == ColumnMap(costResponse.columns)
        rows == costResponse.rows
        items == [i \in DOMAIN rows |-> CostItem(columnMap, rows[i], tagMap, p)]
        totalCost == SumCosts(items)
        detailedCosts == SortCosts(items)
    IN  [summary |-> createSummary(detailedCosts, totalCost, p),
         detailed_costs |-> detailedCosts,
         metadata |-> [start_date |-> p.start_date,
                       end_date |-> p.end_date,
                       start_time |-> p.start_time,
                       end_time |-> p.end_time,
                       subscription_id |-> p.subscription_id,
                       granularity |-> p.granularity,
                       total_records |-> Len(detailedCosts)]]

\* lines 285-293: the TagMap of the listed resources, a later entry of the
\* same id replacing an earlier one; null or empty tags give {}
BuildTagMap(data) ==
    [id \in {data[i].id : i \in DOMAIN data} |->
        data[CHOOSE i \in DOMAIN data :
                data[i].id = id /\ \A j \in DOMAIN data : data[j].id = id => j <= i].tags]

EmptyTagMap == BuildTagMap(<<>>)

fetchResourceTags_Propagate(reply) ==
    IF reply.ok THEN [threw |-> FALSE, tags |-> BuildTagMap(reply.data)]
    ELSE [threw |-> TRUE, tags |-> EmptyTagMap]

\* fetchResourceTags, given the tag query's reply: a failure is caught
\* (lines 297-300) and gives the empty TagMap
fetchResourceTags(reply) ==
    IF reply.ok THEN [threw |-> FALSE, tags |-> BuildTagMap(reply.data)]
    ELSE [threw |-> FALSE, tags |-> EmptyTagMap]

-----------------------------------------------------------------------------
(* exports.handler *)

\* lines 15-20
CorsHeaders ==
    [AccessControlAllowOrigin |-> "*",
     AccessControlAllowHeaders |-> "Content-Type, Authorization",
     AccessControlAllowMethods |-> "GET, POST, OPTIONS",
     ContentType |-> "application/json"]

NoReport == <<>>

\* the body '' of lines 24-28
EmptyBody == [kind |-> "empty", error |-> "", message |-> "", report |-> NoReport]

\* lines 40-44
ValidationResponse(msg) ==
    [statusCode |-> 400, headers |-> CorsHeaders,
     body |-> [kind |-> "error", error |-> msg, message |-> "", report |-> NoReport]]

\* lines 76-85
ErrorResponse(msg) ==
    [statusCode |-> 500, headers |-> CorsHeaders,
     body |-> [kind |-> "error", error |-> "Internal server error", message |-> msg,
               report |-> NoReport]]

\* lines 70-74
ReportResponse(result) ==
    [statusCode |-> 200, headers |-> CorsHeaders,
     body |-> [kind |-> "report", error |-> "", message |-> "", report |-> result]]

PreflightResponse == [statusCode |-> 200, headers |-> CorsHeaders, body |-> EmptyBody]

NoResponse == [statusCode |-> 0, headers |-> CorsHeaders, body |-> EmptyBody]

NoParams ==
    [start_date |-> Undefined, end_date |-> Undefined, start_time |-> Undefined,
     end_time |-> Undefined, subscription_id |-> Undefined, include_tags |-> FALSE,
     granularity |-> Undefined]

NoCostData == [columns |-> <<>>, rows |-> <<>>]

NoOutcome == [auth |-> "none", cost |-> "none", tags |-> "none"]

MSG_CREDS == "Missing Azure credentials in environment variables"
MSG_NULL_BODY == "Cannot read properties of null (reading 'start_date')"
MSG_AUTH == "Request failed with status code 401"
MSG_COST == "Request failed with status code 429"
MSG_TAGS == "Request failed with status code 403"

IsPreflight_LowerCase(ev) == ev.httpMethod = "options"

\* line 23
IsPreflight(ev) == ev.httpMethod = "OPTIONS"

CredentialsMissing_SecretUnchecked(environment) ==
    \/ ~ Truthy(environment.AZURE_CLIENT_ID)
    \/ ~ Truthy(environment.AZURE_TENANT_ID)

\* line 198
CredentialsMissing(environment) ==
    \/ ~ Truthy(environment.AZURE_CLIENT_ID)
    \/ ~ Truthy(environment.AZURE_CLIENT_SECRET)
    \/ ~ Truthy(environment.AZURE_TENANT_ID)

ShouldFetchTags_Always(p) == TRUE

\* line 63
ShouldFetchTags(p) == p.include_tags

\* lines 23-48: the handler up to its first await
Receive ==
    /\ pc = "start"
    /\ IF IsPreflight(event)
         THEN /\ response' = PreflightResponse
              /\ pc' = "done"
              /\ UNCHANGED <<params, verr, steps, outcome>>
       ELSE IF ResolverThrows(event)
         THEN /\ response' = ErrorResponse(MSG_NULL_BODY)
              /\ pc' = "done"
              /\ steps' = <<"resolve">>
              /\ UNCHANGED <<params, verr, outcome>>
       ELSE /\ params' = getRequestParameters(event, env)
            /\ verr' = validateParameters(params')
            /\ IF verr' # NoError
                 THEN /\ response' = ValidationResponse(verr')
                      /\ pc' = "done"
                      /\ steps' = <<"resolve", "validate">>
                      /\ UNCHANGED outcome
               ELSE IF CredentialsMissing(env)
                 THEN /\ response' = ErrorResponse(MSG_CREDS)
                      /\ pc' = "done"
                      /\ steps' = <<"resolve", "validate">>
                      /\ outcome' = [outcome EXCEPT !.auth = "nocreds"]
               ELSE /\ pc' = "auth"
                    /\ steps' = <<"resolve", "validate", "auth">>
                    /\ UNCHANGED <<response, outcome>>
    /\ UNCHANGED <<event, env, costData, resourceTags>>

\* lines 210-215 and 51: the token arrives and the cost query is sent
AuthSucceeds ==
    /\ pc = "auth"
    /\ pc' = "cost"
    /\ outcome' = [outcome EXCEPT !.auth = "ok"]
    /\ steps' = Append(steps, "cost")
    /\ UNCHANGED <<event, env, params, verr, costData, resourceTags, response>>

\* line 210 throws; the handler's catch answers
AuthFails ==
    /\ pc = "auth"
    /\ pc' = "done"
    /\ outcome' = [outcome EXCEPT !.auth = "failed"]
    /\ response' = ErrorResponse(MSG_AUTH)
    /\ UNCHANGED <<event, env, params, verr, steps, costData, resourceTags>>

\* lines 62-74 once the tag map is known
Finish(data, fetched) ==
    IF fetched.threw
      THEN /\ response' = ErrorResponse(MSG_TAGS)
           /\ UNCHANGED <<resourceTags, steps>>
      ELSE /\ resourceTags' = fetched.tags
           /\ steps' = Append(steps, "process")
           /\ response' = ReportResponse(processCostData(data, fetched.tags, params))

\* lines 255-258 and 62-74: the cost data arrives; the tag query is sent
\* when tags are asked for, else the report is built at once
CostSucceeds(data) ==
    /\ pc = "cost"
    /\ costData' = data
    /\ outcome' = [outcome EXCEPT !.cost = "ok"]
    /\ IF ShouldFetchTags(params)
         THEN /\ pc' = "tags"
              /\ steps' = Append(steps, "tags")
              /\ UNCHANGED <<resourceTags, response>>
         ELSE /\ pc' = "done"
              /\ steps' = Append(steps, "process")
              /\ resourceTags' = EmptyTagMap
              /\ response' = ReportResponse(processCostData(data, EmptyTagMap, params))
    /\ UNCHANGED <<event, env, params, verr>>

\* line 255 throws; the handler's catch answers
CostFails ==
    /\ pc = "cost"
    /\ pc' = "done"
    /\ outcome' = [outcome EXCEPT !.cost = "failed"]
    /\ response' = ErrorResponse(MSG_COST)
    /\ UNCHANGED <<event, env, params, verr, steps, costData, resourceTags>>

\* lines 279-295 and 67-74: the resources arrive and the report is built
TagsSucceed(data) ==
    /\ pc = "tags"
    /\ pc' = "done"
    /\ outcome' = [outcome EXCEPT !.tags = "ok"]
    /\ Finish(costData, fetchResourceTags([ok |-> TRUE, data |-> data]))
    /\ UNCHANGED <<event, env, params, verr, costData>>

\* lines 297-300 and 67-74: the tag query fails and the report is built
TagsFail ==
    /\ pc = "tags"
    /\ pc' = "done"
    /\ outcome' = [outcome EXCEPT !.tags = "failed"]
    /\ Finish(costData, fetchResourceTags([ok |-> FALSE, data |-> <<>>]))
    /\ UNCHANGED <<event, env, params, verr, costData>>

-----------------------------------------------------------------------------
(* The inputs the specifications draw *)

S_r1 == <<"/", "r", "1">>
S_g_r2 == <<"/", "g", "/", "r", "2">>
S_VM == <<"V", "M">>
S_Storage == <<"S", "t", "o", "r", "a", "g", "e">>
S_rg == <<"r", "g">>
S_type == <<"v", "m">>
S_2024011 == <<"2", "0", "2", "4", "0", "1", "1">>
S_20240102 == <<"2", "0", "2", "4", "0", "1", "0", "2">>
S_20240115 == <<"2", "0", "2", "4", "0", "1", "1", "5">>
S_notADate == <<"2", "0", "2", "4", "-", "1", "3", "-", "4", "5">>
S_time_single == <<"9", ":", "3", "0", ":", "0", "0">>
S_time_24 == TimeStr(24, 0, 0)
S_time_60 == TimeStr(12, 60, 0)
S_time_short == <<"1", "2", ":", "0", "0">>
S_Env == <<"E", "n", "v">>
S_PRD == <<"P", "R", "D">>
S_Team == <<"T", "e", "a", "m">>
S_Eng == <<"E", "n", "g">>

\* the columns the cost query returns, in the order Azure lists them
AllColumns == <<"PreTaxCost", "UsageDate", "ServiceName", "ResourceId",
                "ResourceGroupName", "ResourceType">>

WithoutColumn(name) == SelectSeq(AllColumns, LAMBDA c : c # name)

\* a row under the columns cols
MakeRow(cols, cost, date, service, id) ==
    [i \in DOMAIN cols |->
        CASE cols[i] = "PreTaxCost" -> NCell(cost)
          [] cols[i] = "UsageDate" -> date
          [] cols[i] = "ServiceName" -> SCell(service)
          [] cols[i] = "ResourceId" -> SCell(id)
          [] cols[i] = "ResourceGroupName" -> SCell(S_rg)
          [] OTHER -> SCell(S_type)]

SeqsUpTo(S, n) == UNION {[1..k -> S] : k \in 0..n}

\* what a row says: cost in mills, UsageDate, service, resource id
HandlerRowSpecs ==
    {<<10005, NCell(20240101), S_VM, S_r1>>,
     <<5000, NCell(20240102), S_Storage, S_g_r2>>,
     <<250, SCell(S_20240102), S_VM, <<>>>>}

ProcRowSpecs ==
    {<<1005, NCell(20240115), S_VM, S_r1>>,
     <<1010, SCell(S_20240115), S_Storage, S_g_r2>>,
     <<2500, SCell(S_20240115), S_Storage, S_g_r2>>,
     <<-5, SCell(S_20240102), S_VM, S_r1>>,
     <<-15, SCell(S_20240102), S_NA, <<>>>>,
     <<4, SCell(S_abc), S_Storage, S_r1>>,
     <<1004, SCell(S_2024011), S_VM, <<>>>>,
     <<5, NCell(20231231), S_Storage, S_g_r2>>}

ResponsesOf(rowSpecs, n, columnSets) ==
    {[columns |-> cols,
      rows |-> [i \in DOMAIN rs |-> MakeRow(cols, rs[i][1], rs[i][2], rs[i][3], rs[i][4])]] :
        cols \in columnSets, rs \in SeqsUpTo(rowSpecs, n)}

HandlerResponses == ResponsesOf(HandlerRowSpecs, MaxRows, {AllColumns})

ProcResponses ==
    ResponsesOf(ProcRowSpecs, MaxProcRows,
                {AllColumns, WithoutColumn("UsageDate"), WithoutColumn("ServiceName")})

ServiceName(i) == <<"S", Digits[i + 1]>>

\* the costs, in mills, of the rows the i-th service may have: none, one or two
ServiceRowCosts(i) ==
    LET first == IF i % 2 = 1 THEN 1500 ELSE 2496
    IN  {<<>>, <<first>>, <<first, 2504>>}

RECURSIVE ServiceRowSpecs(_, _)
ServiceRowSpecs(choice, i) ==
    IF i = 0 THEN <<>>
    ELSE ServiceRowSpecs(choice, i - 1)
         \o [k \in DOMAIN choice[i] |-> <<choice[i][k], NCell(20240115), ServiceName(i), S_r1>>]

\* responses with up to MaxServices services, each with up to two rows, and
\* maybe a row of the service 'N/A'
ServiceResponses ==
    {[columns |-> AllColumns,
      rows |-> LET rs == (IF na THEN <<<<9000, NCell(20240115), S_NA, S_r1>>>> ELSE <<>>)
                         \o ServiceRowSpecs(choice, MaxServices)
               IN  [i \in DOMAIN rs |->
                      MakeRow(AllColumns, rs[i][1], rs[i][2], rs[i][3], rs[i][4])]] :
        choice \in {c \in [1..MaxServices -> UNION {ServiceRowCosts(i) : i \in 1..MaxServices}] :
                        \A i \in 1..MaxServices : c[i] \in ServiceRowCosts(i)},
        na \in BOOLEAN}

\* the resources the tag query lists
TagReplies ==
    {<<>>,
     <<[id |-> S_r1, tags |-> <<<<S_Env, S_PRD>>, <<S_Team, S_Eng>>>>],
       [id |-> S_g_r2, tags |-> <<>>]>>,
     <<[id |-> S_r1, tags |-> <<>>],
       [id |-> S_g_r2, tags |-> <<<<S_Env, S_PRD>>>>],
       [id |-> S_r1, tags |-> <<<<S_Team, S_Eng>>>>]>>}

Object(fields) == [f \in FieldNames |-> IF f \in DOMAIN fields THEN fields[f] ELSE Undefined]

D_2023_01_01 == JStr(DateStr(2023, 1, 1))
D_2024_01_01 == JStr(DateStr(2024, 1, 1))
D_2024_12_31 == JStr(DateStr(2024, 12, 31))
D_2025_01_01 == JStr(DateStr(2025, 1, 1))

Envs ==
    {[AZURE_CLIENT_ID |-> id, AZURE_CLIENT_SECRET |-> secret,
      AZURE_TENANT_ID |-> JStr(S_abc), AZURE_SUBSCRIPTION_ID |-> sub] :
        id \in {JStr(S_abc)}, secret \in {Undefined, JStr(S_abc)},
        sub \in {Undefined, JStr(S_envsub)}}

FullEnv ==
    [AZURE_CLIENT_ID |-> JStr(S_abc), AZURE_CLIENT_SECRET |-> JStr(S_abc),
     AZURE_TENANT_ID |-> JStr(S_abc), AZURE_SUBSCRIPTION_ID |-> JStr(S_envsub)]

HandlerBodies ==
    {[kind |-> "absent", obj |-> EmptyObject],
     [kind |-> "malformed", obj |-> EmptyObject],
     [kind |-> "null", obj |-> EmptyObject],
     [kind |-> "object", obj |-> Object([start_date |-> D_2024_01_01, end_date |-> D_2024_12_31])],
     [kind |-> "object", obj |-> Object([start_date |-> D_2024_01_01, end_date |-> D_2024_12_31,
                                         include_tags |-> JBool(FALSE)])],
     [kind |-> "object", obj |-> Object([start_date |-> D_2024_01_01, end_date |-> D_2023_01_01])],
     [kind |-> "object", obj |-> Object([end_date |-> D_2025_01_01, start_time |-> JStr(S_time_24),
                                         subscription_id |-> JStr(S_sub)])]}

HandlerQueries ==
    {EmptyObject,
     Object([start_date |-> D_2023_01_01, end_date |-> D_2024_01_01,
             subscription_id |-> JStr(S_sub)]),
     Object([start_date |-> D_2023_01_01, end_date |-> D_2024_01_01,
             include_tags |-> JStr(S_false), granularity |-> JStr(S_Monthly)]),
     Object([start_date |-> JStr(S_abc), granularity |-> JStr(S_Weekly)])}

HandlerEvents ==
    {[httpMethod |-> m, body |-> b, queryStringParameters |-> q] :
        m \in {"OPTIONS", "GET", "POST"}, b \in HandlerBodies, q \in HandlerQueries}

\* the include_tags values a JSON body can carry
BodyIncludeTags ==
    {Undefined, JNull, JBool(TRUE), JBool(FALSE), JStr(S_true), JStr(S_false),
     JStr(S_TRUE), JStr(<<>>)}

\* the include_tags values a query string can carry
QueryIncludeTags ==
    {Undefined, JStr(S_true), JStr(S_false), JStr(S_TRUE), JStr(S_one), JStr(<<>>)}

ResolveEvents ==
    {[httpMethod |-> "GET",
      body |-> [kind |-> k,
                obj |-> IF k = "object"
                          THEN Object([include_tags |-> bt, start_date |-> D_2024_01_01])
                          ELSE EmptyObject],
      queryStringParameters |-> Object([include_tags |-> qt, end_date |-> D_2024_12_31])] :
        k \in {"absent", "malformed", "object"}, bt \in BodyIncludeTags,
        qt \in QueryIncludeTags}

DateValues ==
    {Undefined, JStr(<<>>), JStr(S_abc), JStr(S_notADate),
     D_2023_01_01, D_2024_01_01, D_2024_12_31, D_2025_01_01}

TimeValues ==
    {JStr(TimeStr(0, 0, 0)), JStr(TimeStr(23, 59, 59)), JStr(S_time_single),
     JStr(S_time_24), JStr(S_time_60), JStr(S_time_short)}

ParameterSets ==
    [start_date : DateValues, end_date : DateValues,
     start_time : TimeValues, end_time : {JStr(TimeStr(23, 59, 59)), JStr(S_time_60)},
     subscription_id : {Undefined, JStr(S_sub)},
     include_tags : {TRUE},
     granularity : {JStr(S_Daily), JStr(S_Monthly), JStr(S_Weekly)}]

ValidParams(tags) ==
    [start_date |-> D_2024_01_01, end_date |-> D_2024_12_31,
     start_time |-> JStr(TimeStr(0, 0, 0)), end_time |-> JStr(TimeStr(23, 59, 59)),
     subscription_id |-> JStr(S_sub), include_tags |-> tags, granularity |-> JStr(S_Daily)]

-----------------------------------------------------------------------------
(* The handler's specification *)

Init ==
    /\ event \in HandlerEvents
    /\ env \in Envs
    /\ pc = "start"
    /\ params = NoParams
    /\ verr = "unvalidated"
    /\ steps = <<>>
    /\ outcome = NoOutcome
    /\ costData = NoCostData
    /\ resourceTags = EmptyTagMap
    /\ response = NoResponse

Next ==
    \/ Receive
    \/ AuthSucceeds
    \/ AuthFails
    \/ \E data \in HandlerResponses : CostSucceeds(data)
    \/ CostFails
    \/ \E data \in TagReplies : TagsSucceed(data)
    \/ TagsFail

Spec == Init /\ [][Next]_vars

-----------------------------------------------------------------------------
(* getRequestParameters on its own *)

InitResolve ==
    /\ event \in ResolveEvents
    /\ env = FullEnv
    /\ pc = "start"
    /\ params = NoParams
    /\ verr = "unvalidated"
    /\ steps = <<>>
    /\ outcome = NoOutcome
    /\ costData = NoCostData
    /\ resourceTags = EmptyTagMap
    /\ response = NoResponse

Resolve ==
    /\ pc = "start"
    /\ params' = getRequestParameters(event, env)
    /\ steps' = <<"resolve">>
    /\ pc' = "done"
    /\ UNCHANGED <<event, env, verr, outcome, costData, resourceTags, response>>

SpecResolve == InitResolve /\ [][Resolve]_vars

-----------------------------------------------------------------------------
(* validateParameters on its own *)

InitValidate ==
    /\ event = [httpMethod |-> "GET", body |-> [kind |-> "absent", obj |-> EmptyObject],
                queryStringParameters |-> EmptyObject]
    /\ env = FullEnv
    /\ pc = "start"
    /\ params \in ParameterSets
    /\ verr = "unvalidated"
    /\ steps = <<>>
    /\ outcome = NoOutcome
    /\ costData = NoCostData
    /\ resourceTags = EmptyTagMap
    /\ response = NoResponse

Validate ==
    /\ pc = "start"
    /\ verr' = validateParameters(params)
    /\ steps' = <<"validate">>
    /\ pc' = "done"
    /\ UNCHANGED <<event, env, params, outcome, costData, resourceTags, response>>

SpecValidate == InitValidate /\ [][Validate]_vars

-----------------------------------------------------------------------------
(* processCostData on its own *)

InitProcess ==
    /\ event = [httpMethod |-> "GET", body |-> [kind |-> "absent", obj |-> EmptyObject],
                queryStringParameters |-> EmptyObject]
    /\ env = FullEnv
    /\ pc = "start"
    /\ \E tags \in BOOLEAN : params = ValidParams(tags)
    /\ verr = NoError
    /\ steps = <<>>
    /\ outcome = NoOutcome
    /\ costData \in ProcResponses \cup ServiceResponses
    /\ resourceTags \in {BuildTagMap(d) : d \in {r \in TagReplies : Len(r) # 2}}
    /\ response = NoResponse

Process ==
    /\ pc = "start"
    /\ response' = ReportResponse(processCostData(costData, resourceTags, params))
    /\ steps' = <<"process">>
    /\ pc' = "done"
    /\ UNCHANGED <<event, env, params, verr, outcome, costData, resourceTags>>

SpecProcess == InitProcess /\ [][Process]_vars

-----------------------------------------------------------------------------
(* Properties of validateParameters *)

\* the calendar dates of the years the model draws dates from
Calendar ==
    {c \in (2023..2025) \X (1..12) \X (1..31) :
        c[3] <= (IF c[2] = 2 THEN (IF c[1] = 2024 THEN 29 ELSE 28)
                 ELSE IF c[2] \in {4, 6, 9, 11} THEN 30 ELSE 31)}

CalendarStrings == {DateStr(c[1], c[2], c[3]) : c \in Calendar}

Missing(v) == v.type = "undefined" \/ (v.type = "string" /\ Len(v.s) = 0)

Parseable(v) == v.type = "string" /\ v.s \in CalendarStrings

CivilOf(v) == CHOOSE c \in Calendar : DateStr(c[1], c[2], c[3]) = v.s

Earlier(c, d) ==
    \/ c[1] < d[1]
    \/ c[1] = d[1] /\ c[2] < d[2]
    \/ c[1] = d[1] /\ c[2] = d[2] /\ c[3] < d[3]

\* the days from the date c to the later date d: the dates after c up to d
SpanDays(c, d) == Cardinality({x \in Calendar : Earlier(c, x) /\ ~ Earlier(d, x)})

\* hours 0 to 23 in one or two digits, minutes and seconds 00 to 59
WellFormedTime(v) ==
    /\ v.type = "string"
    /\ Len(v.s) \in {7, 8}
    /\ LET s == v.s
           n == Len(s)
       IN  /\ s[n - 5] = ":" /\ s[n - 2] = ":"
           /\ \A i \in (1..n) \ {n - 5, n - 2} : IsDigit(s[i])
           /\ (IF n = 8 THEN 10 * DigitVal(s[1]) + DigitVal(s[2]) ELSE DigitVal(s[1])) <= 23
           /\ 10 * DigitVal(s[n - 4]) + DigitVal(s[n - 3]) <= 59
           /\ 10 * DigitVal(s[n - 1]) + DigitVal(s[n]) <= 59

\* whether the ParameterSet p violates the i-th rule of the validator
Violates(i, p) ==
    CASE i = 1 -> Missing(p.start_date)
      [] i = 2 -> Missing(p.end_date)
      [] i = 3 -> Missing(p.subscription_id)
      [] i = 4 -> ~ Parseable(p.start_date) \/ ~ Parseable(p.end_date)
      [] i = 5 -> /\ Parseable(p.start_date) /\ Parseable(p.end_date)
                  /\ Earlier(CivilOf(p.end_date), CivilOf(p.start_date))
      [] i = 6 -> /\ Parseable(p.start_date) /\ Parseable(p.end_date)
                  /\ SpanDays(CivilOf(p.start_date), CivilOf(p.end_date)) > 365
      [] i = 7 -> ~ WellFormedTime(p.start_time) \/ ~ WellFormedTime(p.end_time)
      [] OTHER -> p.granularity.s \notin {S_Daily, S_Monthly}

RuleMessages ==
    <<MSG_START, MSG_END, MSG_SUB, MSG_DATE, MSG_ORDER, MSG_RANGE, MSG_TIME, MSG_GRAN>>

ViolatedRules(p) == {i \in 1..8 : Violates(i, p)}

-----------------------------------------------------------------------------
(* Properties of getRequestParameters *)

\* C5: include_tags resolves to true when given in neither the body nor the
\* query string; when explicitly present (the body first) it is true exactly
\* for boolean true or the string "true" and false for every other value,
\* the empty string included.
C5_IncludeTagsExplicit ==
    pc = "done" =>
        LET body == ParsedBody(event)
            query == event.queryStringParameters
        IN  params.include_tags =
              (IF body.include_tags.type # "undefined"
                 THEN body.include_tags \in {JBool(TRUE), JStr(S_true)}
               ELSE IF query.include_tags.type # "undefined"
                 THEN query.include_tags = JStr(S_true)
               ELSE TRUE)

-----------------------------------------------------------------------------
(* Properties of processCostData and createSummary *)

Records == response.body.report.detailed_costs

Summary == response.body.report.summary

Processed == pc = "done" /\ response.statusCode = 200

Range(s) == {s[i] : i \in DOMAIN s}

\* the sequences s and t hold the same elements the same number of times
SameBag(s, t) ==
    \A x \in Range(s) \cup Range(t) :
        Cardinality({i \in DOMAIN s : s[i] = x}) = Cardinality({i \in DOMAIN t : t[i] = x})

RECURSIVE SumSeq(_)
SumSeq(s) == IF s = <<>> THEN 0 ELSE Head(s) + SumSeq(Tail(s))

\* the raw UsageDate value of a row, as a string
RawDate(data, row) ==
    LET i == CHOOSE k \in DOMAIN data.columns : data.columns[k] = "UsageDate"
    IN  IF row[i].t = "string" THEN row[i].s ELSE NatToString(row[i].n)

\* the date the decoding is said to give for a row
SaidDate(data, row) ==
    IF "UsageDate" \notin Range(data.columns) THEN S_Unknown
    ELSE LET raw == RawDate(data, row)
         IN  IF Len(raw) = 8 /\ \A i \in 1..8 : IsDigit(raw[i])
               THEN <<raw[7], raw[8], "-", raw[5], raw[6], "-", raw[1], raw[2], raw[3], raw[4]>>
               ELSE S_Unknown

\* C6: a record's date is "DD-MM-YYYY" for a contiguous 8-digit UsageDate
\* and exactly "Unknown" when the column is absent or the raw value is
\* malformed or not 8 characters long.
C6_DateDecoding ==
    Processed =>
        SameBag([i \in DOMAIN Records |-> Records[i].Date],
                [i \in DOMAIN costData.rows |-> SaidDate(costData, costData.rows[i])])

\* the PreTaxCost, in mills, of a row
RawCost(data, row) ==
    row[CHOOSE k \in DOMAIN data.columns : data.columns[k] = "PreTaxCost"].n

\* the cent nearest to m mills, a tie going toward positive infinity
NearestCentTiesUp(m) ==
    CHOOSE c \in ((m \div 10) - 1)..((m \div 10) + 1) : 10 * c - 5 <= m /\ m < 10 * c + 5

\* the cent nearest to m mills, a tie going away from zero
NearestCentTiesAway(m) ==
    IF m >= 0 THEN NearestCentTiesUp(m) ELSE - NearestCentTiesUp(- m)

CodeUnit(c) ==
    CASE c = "-" -> 45
      [] c \in DigitChars -> 48 + DigitVal(c)
      [] c = "U" -> 85
      [] c = "a" -> 97
      [] c = "b" -> 98
      [] c = "c" -> 99
      [] c = "k" -> 107
      [] c = "n" -> 110
      [] c = "o" -> 111
      [] OTHER -> 119

\* a comes before b in string order
RECURSIVE StringBefore(_, _)
StringBefore(a, b) ==
    IF b = <<>> THEN FALSE
    ELSE IF a = <<>> THEN TRUE
    ELSE IF Head(a) = Head(b) THEN StringBefore(Tail(a), Tail(b))
    ELSE CodeUnit(Head(a)) < CodeUnit(Head(b))

\* C8: in a 200 response detailed_costs is a permutation of the records
\* built one per row, total_records is the number of rows, and adjacent
\* records are ordered by date string ascending and, for equal dates, by
\* cost descending.
C8_SortedPermutation ==
    Processed =>
        LET report == response.body.report
            columnMap == ColumnMap(costData.columns)
            built == [i \in DOMAIN costData.rows |->
                        CostItem(columnMap, costData.rows[i], resourceTags, params)]
        IN  /\ report.metadata.total_records = Len(costData.rows)
            /\ Len(Records) = Len(costData.rows)
            /\ SameBag(Records, built)
            /\ \A i \in 1..(Len(Records) - 1) :
                  \/ StringBefore(Records[i].Date, Records[i + 1].Date)
                  \/ /\ Records[i].Date = Records[i + 1].Date
                     /\ Records[i].Cost_INR >= Records[i + 1].Cost_INR

\* three rows that arrived out of order: two share a date and differ in
\* cost, the third has a date that sorts before theirs
C8_Witness ==
    /\ Processed
    /\ Len(Records) = 3
    /\ Records[1].Date # Records[2].Date
    /\ Records[2].Date = Records[3].Date
    /\ Records[2].Cost_INR > Records[3].Cost_INR
    /\ costData.rows[1][1].n < costData.rows[2][1].n
    /\ costData.rows[3][2] # costData.rows[1][2]
    /\ costData.rows[3][2] # costData.rows[2][2]

\* the service names of the records, 'N/A' apart
ServicesOf(records) == {records[i].ServiceName : i \in DOMAIN records} \ {S_NA}

\* the summed cost of the records of one service
ServiceTotal(records, service) ==
    SumSeq([i \in 1..Len(SelectSeq(records, LAMBDA r : r.ServiceName = service)) |->
              SelectSeq(records, LAMBDA r : r.ServiceName = service)[i].Cost_INR])

\* C9: for a non-empty record sequence top_services has at most 5 entries,
\* one per distinct service other than 'N/A', each with the summed cost of
\* that service's records, in non-increasing order of cost, and no service
\* left out has a strictly greater sum than a listed one.
C9_TopServices ==
    (Processed /\ Len(Records) > 0) =>
        LET top == Summary.top_services
            services == ServicesOf(Records)
            listed == {top[k].service : k \in DOMAIN top}
        IN  /\ Len(top) <= 5
            /\ Len(top) = (IF Cardinality(services) < 5 THEN Cardinality(services) ELSE 5)
            /\ listed \subseteq services
            /\ Cardinality(listed) = Len(top)
            /\ \A k \in DOMAIN top : top[k].cost = ServiceTotal(Records, top[k].service)
            /\ \A k \in 1..(Len(top) - 1) : top[k].cost >= top[k + 1].cost
            /\ \A s \in services \ listed :
                  \A k \in DOMAIN top : ServiceTotal(Records, s) <= top[k].cost

\* six services and a record of 'N/A': five are listed, the sixth, whose
\* sum is strictly smaller than the fifth's, is left out
C9_Witness ==
    /\ Processed
    /\ Cardinality(ServicesOf(Records)) >= 6
    /\ \E i \in DOMAIN Records : Records[i].ServiceName = S_NA
    /\ Len(Summary.top_services) = 5
    /\ Summary.top_services[1].cost > Summary.top_services[5].cost
    /\ \E s \in ServicesOf(Records) :
          ServiceTotal(Records, s) < Summary.top_services[5].cost

-----------------------------------------------------------------------------
(* Properties of the handler *)

\* the upstream calls issued so far, in order
Calls == SelectSeq(steps, LAMBDA x : x \in {"auth", "cost", "tags"})

Pipeline == <<"auth", "cost", "tags">>

\* C2: when validation, authentication and the cost fetch succeed, a failed
\* tag query does not abort the request: the tag map is empty, the response
\* is 200 with the report, and every record's Tags is "No tags".
C2_TagFailureDegrades ==
    (pc = "done" /\ outcome.tags = "failed") =>
        /\ verr = NoError /\ outcome.auth = "ok" /\ outcome.cost = "ok"
        /\ resourceTags = EmptyTagMap
        /\ response.statusCode = 200
        /\ response.body.kind = "report"
        /\ Len(Records) = Len(costData.rows)
        /\ \A i \in DOMAIN Records : Records[i].Tags = S_NoTags

\* the tag query failed for a response with a row of a named resource
C2_Witness ==
    /\ pc = "done"
    /\ outcome.tags = "failed"
    /\ \E i \in DOMAIN Records : Records[i].ResourceId # <<>>

\* a credential is absent from the environment
SomeCredentialAbsent ==
    \E name \in {"AZURE_CLIENT_ID", "AZURE_CLIENT_SECRET", "AZURE_TENANT_ID"} :
        env[name].type = "undefined" \/ env[name].s = <<>>

\* C3: when validation passes, a failure of authentication (missing
\* credentials included) or of the cost fetch is fatal: the response is 500
\* with {error: "Internal server error", message}, never 200 or a report,
\* and no later step of the pipeline is performed.
C3_UpstreamFailureFatal ==
    /\ (verr = NoError /\ SomeCredentialAbsent) =>
          /\ Calls = <<>>
          /\ "process" \notin Range(steps)
          /\ pc = "done"
          /\ outcome.auth = "nocreds"
    /\ (pc = "done" /\ verr = NoError /\ outcome.auth \in {"nocreds", "failed"}) =>
          /\ response.statusCode = 500
          /\ response.body.kind = "error"
          /\ response.body.error = "Internal server error"
          /\ response.body.message \in {MSG_CREDS, MSG_AUTH}
          /\ Range(steps) \cap {"cost", "tags", "process"} = {}
    /\ (pc = "done" /\ verr = NoError /\ outcome.cost = "failed") =>
          /\ response.statusCode = 500
          /\ response.body.kind = "error"
          /\ response.body.error = "Internal server error"
          /\ response.body.message = MSG_COST
          /\ Range(steps) \cap {"tags", "process"} = {}

\* the cost fetch failed after a successful authentication
C3_Witness ==
    /\ pc = "done"
    /\ verr = NoError
    /\ outcome.auth = "ok"
    /\ outcome.cost = "failed"
    /\ response.statusCode = 500

\* C4: an OPTIONS request gets 200 with an empty body and the CORS headers,
\* and nothing else happens for it: no parameter resolution, no validation,
\* no authentication, cost or tag call, whatever body and query it carries.
C4_PreflightOnly ==
    event.httpMethod = "OPTIONS" =>
        /\ steps = <<>>
        /\ params = NoParams
        /\ verr = "unvalidated"
        /\ outcome = NoOutcome
        /\ pc \in {"start", "done"}
        /\ pc = "done" =>
              /\ response.statusCode = 200
              /\ response.body.kind = "empty"
              /\ response.headers = CorsHeaders

\* an OPTIONS request was answered whose body and query a GET would resolve
\* to valid parameters
C4_Witness ==
    /\ event.httpMethod = "OPTIONS"
    /\ pc = "done"
    /\ response.statusCode = 200
    /\ event.body.kind = "object"
    /\ validateParameters(getRequestParameters(event, env)) = NoError

\* C10: parameters that fail validation give 400 with {error: message} and
\* no upstream call; the calls that are issued occur at most once each, in
\* the order authentication, cost fetch, tag fetch, and the tag fetch only
\* when include_tags is true and the cost fetch has succeeded.
C10_ValidatorGate ==
    /\ (event.httpMethod # "OPTIONS" /\ event.body.kind # "null"
        /\ validateParameters(getRequestParameters(event, env)) # NoError) =>
          /\ Calls = <<>>
          /\ pc = "done" =>
                /\ response.statusCode = 400
                /\ response.body.kind = "error"
                /\ response.body.error = validateParameters(getRequestParameters(event, env))
    /\ \E k \in 0..3 : Calls = SubSeq(Pipeline, 1, k)
    /\ "tags" \in Range(Calls) =>
          /\ getRequestParameters(event, env).include_tags
          /\ outcome.cost = "ok"
    /\ "cost" \in Range(Calls) => outcome.auth = "ok"

\* a request with include_tags false ended with a report after exactly the
\* authentication and the cost fetch
C10_Witness ==
    /\ pc = "done"
    /\ response.statusCode = 200
    /\ ~ params.include_tags
    /\ Calls = <<"auth", "cost">>

=============================================================================
